---------------------------- MODULE Spec2Model ----------------------------
(***************************************************************************)
(* Model of the pi-platform edge function                                  *)
(* (supabase/functions/pi-platform/index.ts): the request handler that     *)
(* turns a client action into calls against the Pi payment platform and,   *)
(* for app-to-user (A2U) payouts, a ledger submission.                     *)
(*                                                                         *)
(* A request is a process that advances from one awaited upstream call to  *)
(* the next.  Each action below is "the pending upstream call is answered  *)
(* and the handler runs up to its next await (or its response)".  The      *)
(* payment platform and the ledger are the environment: they hold the      *)
(* only durable state, and each call may fail.                             *)
(***************************************************************************)
EXTENDS Integers, Sequences, FiniteSets, TLC

(***************************************************************************)
(* Bounds of the model.                                                    *)
(***************************************************************************)
\* payment identifiers the platform can hand out
MaxPayments == 2
\* ledger transactions that can be submitted in one behaviour
MaxLedgerTx == 2
\* requests the handler receives in one behaviour
MaxRequests == 3

PidOf == <<"P1", "P2", "P3", "P4">>
HashOf == <<"T1", "T2", "T3", "T4">>
PaymentIds == {PidOf[i] : i \in 1..MaxPayments}

Slots == {1, 2}
Users == {"u1", "u2"}

(***************************************************************************)
(* JSON values as the handler sees them after req.json() / parseJson.      *)
(* A scalar is a string or something that is not a string (absent, a       *)
(* number, ...): the handler only ever asks typeof x === "string".         *)
(***************************************************************************)
Undef == [str |-> FALSE, val |-> ""]
JStr(s) == [str |-> TRUE, val |-> s]

\* String.prototype.trim on the strings of the model: the padded and the
\* blank ones are listed, every other string of the model has no outer blanks.
Trim(s) ==
  CASE s = "  " -> ""
    [] s = " H1 " -> "H1"
    [] s = " payout " -> "payout"
    [] s = " not found " -> "not found"
    [] OTHER -> s

\* typeof v === "string" ? v.trim() : ""
TrimmedString(v) == IF v.str THEN Trim(v.val) ELSE ""

\* JavaScript truthiness of a scalar that is a string or undefined
Truthy(v) == v.str /\ v.val # ""

(***************************************************************************)
(* Numbers: Number(x) of a JSON value, kept as a kind and an integer.      *)
(***************************************************************************)
AmountUndef == [t |-> "undef", n |-> 0]
AmountText == [t |-> "text", n |-> 0]
AmountInf == [t |-> "inf", n |-> 0]
AmountNum(k) == [t |-> "num", n |-> k]
AmountNumText(k) == [t |-> "numtext", n |-> k]

\* Number(v): undefined and non-numeric text give NaN, numeric text its value
ToNumber(v) ==
  CASE v.t = "num" -> [kind |-> "num", n |-> v.n]
    [] v.t = "numtext" -> [kind |-> "num", n |-> v.n]
    [] v.t = "inf" -> [kind |-> "inf", n |-> 0]
    [] OTHER -> [kind |-> "nan", n |-> 0]

\* !Number.isFinite(amount) || amount <= 0
BadAmount(v) == LET x == ToNumber(v) IN x.kind # "num" \/ x.n <= 0

(***************************************************************************)
(* parseJson / getPiErrorMessage.  A parsed body keeps the three keys the  *)
(* extractor reads, the raw key parseJson adds, and the keys auth_verify   *)
(* (uid, username), ad_verify (mediator_ack_status) and the settlement     *)
(* submitter (hash, id) read.                                              *)
(***************************************************************************)
NoData == [obj |-> FALSE, error |-> Undef, message |-> Undef]
EmptyBody ==
  [error |-> Undef, message |-> Undef, data |-> NoData, raw |-> Undef,
   uid |-> Undef, username |-> Undef, mediator_ack_status |-> Undef,
   hash |-> Undef, id |-> Undef]

\* a response text: empty, text that is not JSON, or the JSON text of an object
EmptyText == [kind |-> "empty", text |-> "", value |-> EmptyBody]
NotJson(text) == [kind |-> "text", text |-> text, value |-> EmptyBody]
JsonText(value) == [kind |-> "json", text |-> "", value |-> value]

\* index.ts 18-25: {} for no text, the parsed object, {raw} when parsing throws
parseJson(raw) ==
  CASE raw.kind = "empty" -> EmptyBody
    [] raw.kind = "json" -> raw.value
    [] OTHER -> [EmptyBody EXCEPT !.raw = JStr(raw.text)]

\* mutant: the message key is looked at before the error key
getPiErrorMessageMessageFirst(payload, fallback) ==
  LET directError == TrimmedString(payload.error)
      directMessage == TrimmedString(payload.message)
      nested == payload.data
      nestedError == TrimmedString(nested.error)
      nestedMessage == TrimmedString(nested.message)
  IN  IF directMessage # "" THEN directMessage
      ELSE IF directError # "" THEN directError
      ELSE IF nested.obj /\ nestedMessage # "" THEN nestedMessage
      ELSE IF nested.obj /\ nestedError # "" THEN nestedError
      ELSE fallback

\* index.ts 27-44
getPiErrorMessage(payload, fallback) ==
  LET directError == TrimmedString(payload.error)
      directMessage == TrimmedString(payload.message)
      nested == payload.data
      nestedError == TrimmedString(nested.error)
      nestedMessage == TrimmedString(nested.message)
  IN  IF directError # "" THEN directError
      ELSE IF directMessage # "" THEN directMessage
      ELSE IF nested.obj /\ nestedError # "" THEN nestedError
      ELSE IF nested.obj /\ nestedMessage # "" THEN nestedMessage
      ELSE fallback

\* error bodies the platform answers with in the handler specification
ErrBodies ==
  { EmptyBody,
    [EmptyBody EXCEPT !.error = JStr("payment_error")] }

CreateFallback(status) ==
  CASE status = 404 -> "Pi A2U create failed (status 404)"
    [] status = 400 -> "Pi A2U create failed (status 400)"
    [] OTHER -> "Pi A2U create failed (status 500)"

PaymentFallback(status) ==
  CASE status = 404 -> "Pi payment API call failed (status 404)"
    [] status = 400 -> "Pi payment API call failed (status 400)"
    [] OTHER -> "Pi payment API call failed (status 500)"


(***************************************************************************)
(* The action names the handler dispatches on (index.ts 133-355), two      *)
(* that it does not know (one of them a known name in another case), and   *)
(* "" for a missing or non-string action.                                  *)
(***************************************************************************)
ApproveActions == {"approve", "payment_approve", "a2u_approve"}
CompleteActions == {"complete", "payment_complete", "a2u_complete"}
CancelActions == {"cancel", "payment_cancel", "a2u_cancel"}
GetActions == {"get", "payment_get", "a2u_get"}
PaymentActions == ApproveActions \cup CompleteActions \cup CancelActions \cup GetActions
Actions ==
  {"auth_verify", "ad_verify", "a2u_config_status", "a2u_create", "a2u_incomplete"}
    \cup PaymentActions \cup {"refund", "Complete"}

LedgerEndpoints == {"loadAccount", "fetchBaseFee", "submitTransaction"}
PlatformEndpoints ==
  {"ads_status", "incomplete_server_payments", "create", "get", "approve",
   "complete", "cancel"}

(***************************************************************************)
(* State.                                                                  *)
(*   env       the process-wide configuration (Deno.env), never written    *)
(*   payments  the payment platform's records, by identifier               *)
(*   ledger    the transactions the ledger has accepted, in order          *)
(*   req       the requests in flight, one per slot                        *)
(*   served    the number of requests received so far                      *)
(*   last      the user and the payment of the previous request when that  *)
(*             was an a2u_create that created a payment, NoLast otherwise  *)
(*   norm      one run of the response normalizer on its own: a response   *)
(*             text, its parse and the message extracted from it           *)
(*   page      the Pi sign-in page (PiAuthPage.tsx): its React state, the  *)
(*             Supabase session, where it navigated and the position of    *)
(*             handlePiAuth                                                *)
(***************************************************************************)
VARIABLES env, payments, ledger, req, last, served, norm, page

vars == <<env, payments, ledger, req, last, served, norm, page>>

\* Keypair.fromSecret(seed).publicKey(); "" when fromSecret throws
PublicKeyOf(seed) ==
  CASE seed = "S1" -> "GA"
    [] OTHER -> ""

Seeds == {"", "bad", "S1"}
Addresses == {"", "GA", "GB"}

Envs ==
  { e \in [apiKey : BOOLEAN, seed : Seeds, publicAddress : Addresses] :
      e.apiKey \/ (e.seed = "" /\ e.publicAddress = "") }

NoPayment == [status |-> "none", uid |-> "", direction |-> "", txid |-> ""]

\* a user-to-app payment a client opened through the Pi SDK
ClientPayment ==
  [status |-> "incomplete", uid |-> "u1", direction |-> "user_to_app", txid |-> ""]

NoRecord ==
  [identifier |-> "", to_address |-> "", from_address |-> "", amount |-> AmountUndef,
   direction |-> "", txid |-> ""]

NoPayload ==
  [present |-> FALSE, amount |-> AmountUndef, uid |-> Undef, memo |-> Undef,
   metadata |-> "missing"]

\* a response: the HTTP status and the keys of its JSON body.  success FALSE
\* and error "" stand for the absent key; ustatus (the body's status key) is 0
\* and data is EmptyBody when the body has none
NoResp ==
  [status |-> 0, success |-> FALSE, error |-> "", ustatus |-> 0, data |-> EmptyBody,
   reused |-> FALSE, pid |-> "", uid |-> "", username |-> "", rewarded |-> FALSE,
   flags |-> <<>>]

\* the answer to an upstream call: the endpoint, the HTTP status (0 when the
\* call got no answer and fetch rejected) and the parsed body
NoAnswer == [ep |-> "", status |-> 0, body |-> EmptyBody]
Answer(ep, status, body) == [ep |-> ep, status |-> status, body |-> body]

\* a request: its position, what it has read of its input so far, the calls
\* it has issued, the latest upstream answer it got, the message of the
\* exception it raised ("" when none) and its response
IdleReq ==
  [pc |-> "idle", method |-> "POST", action |-> "", auth |-> "none",
   payment |-> NoPayload, uid |-> "", paymentId |-> Undef, txid |-> Undef,
   fetched |-> NoRecord, readSeed |-> FALSE, calls |-> <<>>, answer |-> NoAnswer,
   thrown |-> "", resp |-> NoResp]

\* the normalizer at rest
NoNorm == [pc |-> "off", raw |-> EmptyText, fallback |-> "", payload |-> EmptyBody,
           message |-> ""]

NoLast == [uid |-> "", pid |-> ""]

\* the configuration of a deployment that can settle payouts
NominalEnv == [apiKey |-> TRUE, seed |-> "S1", publicAddress |-> "GA"]

\* an A2U payout of u1 that an earlier a2u_create opened
OpenPayout ==
  [status |-> "incomplete", uid |-> "u1", direction |-> "app_to_user", txid |-> ""]

\* useState<{ uid; username } | null>(null)
NoPiUser == [uid |-> "", username |-> ""]

\* the sign-in page as it is constructed: no query parameters, no code, not
\* busy, nobody connected, nothing navigated, no session
IdlePage ==
  [pc |-> "mounted",
   searchParams |-> [auth_code |-> "", openpay_code |-> "", code |-> ""],
   sdk |-> "ok", session |-> FALSE,
   authorizationCode |-> "", busyAuth |-> FALSE, piUser |-> NoPiUser,
   navigated |-> "", toast |-> "",
   expectedCode |-> "", authUsername |-> "", verified |-> NoPiUser,
   username |-> "", created |-> FALSE,
   preferredName |-> "", preferredUsername |-> "", isMatch |-> "unchecked"]

StartWith(envs, first) ==
  /\ env \in envs
  /\ payments \in {[p \in PaymentIds |-> IF p = PidOf[1] THEN f ELSE NoPayment] : f \in first}
  /\ ledger = <<>>
  /\ req = [r \in Slots |-> IdleReq]
  /\ last = NoLast
  /\ served = 0
  /\ norm = NoNorm
  /\ page = IdlePage

Init ==
  StartWith(Envs, {NoPayment, ClientPayment, OpenPayout})

(***************************************************************************)
(* jsonResponse: the two shapes the handler answers with.                  *)
(***************************************************************************)
\* jsonResponse({ error }, status)
ErrorResponse(msg, status) ==
  [NoResp EXCEPT !.status = status, !.error = msg]

\* jsonResponse({ error, status: upstream.status, data }, 400)
UpstreamError(msg, ustatus, data) ==
  [NoResp EXCEPT !.status = 400, !.error = msg, !.ustatus = ustatus, !.data = data]

\* jsonResponse({ success: true, data, ...extra })
SuccessResponse(pid, uid, reused) ==
  [NoResp EXCEPT !.status = 200, !.success = TRUE, !.reused = reused, !.pid = pid,
                  !.uid = uid]

\* an upstream call: a fetch with its method (POST unless said otherwise),
\* or a call through a client library (the session lookup, the ledger)
Call(ep, pid, body) == [ep |-> ep, pid |-> pid, body |-> body, method |-> "POST"]
WithMethod(call, method) == [call EXCEPT !.method = method]
Get(ep, pid) == WithMethod(Call(ep, pid, <<>>), "GET")
Library(ep, pid) == WithMethod(Call(ep, pid, <<>>), "library")
NoBody == <<>>
TxidBody(t) == <<t>>

Respond(q, resp) == [q EXCEPT !.pc = "done", !.resp = resp]
Await(q, pc, call) == [q EXCEPT !.pc = pc, !.calls = Append(@, call)]

\* the pending call of q is answered (status 0: fetch rejected)
Answered(q, status, body) ==
  [q EXCEPT !.answer = Answer(q.calls[Len(q.calls)].ep, status, body)]

\* mutant: the boundary reports the exception as an upstream error
CaughtAsUpstream(q, message) ==
  Respond([q EXCEPT !.thrown = message], UpstreamError(message, 500, EmptyBody))

\* index.ts 373-376: an exception raised anywhere in the handler ends the
\* request with jsonResponse({ error: error.message }, 500)
Caught(q, message) ==
  Respond([q EXCEPT !.thrown = message], ErrorResponse(message, 500))

\* the message of the TypeError a rejected fetch raises
FetchRejected == "error sending request"

\* the HTTP statuses of the answers the platform gives
Non2xx == {400, 404, 500}

CallsTo(q, eps) == {i \in 1..Len(q.calls) : q.calls[i].ep \in eps}

(***************************************************************************)
(* Entry: the action is read, auth_verify goes its own way, every other    *)
(* action needs a session and the app API key.                             *)
(***************************************************************************)
\* mutant: ad_verify is let through without a session as well
NeedsSessionExceptAds(action) == action \notin {"auth_verify", "ad_verify"}

\* index.ts 132-133, 163: which actions pass through the session check
NeedsSession(action) == action # "auth_verify"

\* index.ts 120: the CORS preflight is answered "ok", outside the try block
Preflight(r) ==
  /\ req[r].pc = "idle"
  /\ served < MaxRequests
  /\ served' = served + 1
  /\ req' = [req EXCEPT ![r] =
       Respond([IdleReq EXCEPT !.method = "OPTIONS"], [NoResp EXCEPT !.status = 200])]
  /\ UNCHANGED <<env, norm, page, payments, ledger, last>>

\* index.ts 127-133, 163: the body is read (req.json() throws on a body that
\* is not JSON) and the action is looked at
Receive(r, acts) ==
  /\ req[r].pc = "idle"
  /\ served < MaxRequests
  /\ served' = served + 1
  /\ \/ req' = [req EXCEPT ![r] = Caught(IdleReq, "Unexpected end of JSON input")]
     \/ \E a \in acts \cup {""} :
          LET q == [IdleReq EXCEPT !.action = a]
          IN  req' = [req EXCEPT ![r] =
                IF a = "" THEN Respond(q, ErrorResponse("Missing action", 400))
                ELSE IF NeedsSession(a) THEN [q EXCEPT !.pc = "session"]
                ELSE [q EXCEPT !.pc = "auth_verify"]]
  /\ UNCHANGED <<env, norm, page, payments, ledger, last>>

Session(r) ==
  /\ req[r].pc = "session"
  /\ \E bearer \in BOOLEAN :
       req' = [req EXCEPT ![r] =
         IF ~bearer
           THEN Respond([@ EXCEPT !.auth = "nohdr"], ErrorResponse("Missing auth token", 401))
           ELSE Await(@, "w_getUser", Library("getUser", ""))]
  /\ UNCHANGED <<env, norm, page, payments, ledger, last, served>>

GetUserResp(r) ==
  /\ req[r].pc = "w_getUser"
  /\ \E outcome \in {"user", "rejected", "throws"} :
       LET q == [req[r] EXCEPT !.auth = outcome]
       IN  req' = [req EXCEPT ![r] =
             CASE outcome = "throws" -> Caught(q, FetchRejected)
               [] outcome = "rejected" -> Respond(q, ErrorResponse("Unauthorized", 401))
               [] OTHER ->
                    IF ~env.apiKey
                      THEN Respond(q, ErrorResponse("PI_API_KEY is not configured", 500))
                      ELSE [q EXCEPT !.pc = "dispatch"]]
  /\ UNCHANGED <<env, norm, page, payments, ledger, last, served>>

(***************************************************************************)
(* The payment platform, as the handler's calls see it.                    *)
(***************************************************************************)
IsIncompleteA2U(p) ==
  payments[p].status = "incomplete" /\ payments[p].direction = "app_to_user"

RECURSIVE ListFrom(_)
ListFrom(i) ==
  IF i > MaxPayments THEN <<>>
  ELSE IF IsIncompleteA2U(PidOf[i])
    THEN <<[identifier |-> PidOf[i], user_uid |-> payments[PidOf[i]].uid]>> \o ListFrom(i + 1)
    ELSE ListFrom(i + 1)

\* GET /v2/payments/incomplete_server_payments, answered 2xx
IncompleteServerPayments == ListFrom(1)

FreeIndexes == {i \in 1..MaxPayments : payments[PidOf[i]].status = "none"}

\* POST /v2/payments: the platform keeps one incomplete A2U payment per app key
PlatformAcceptsCreate == IncompleteServerPayments = <<>> /\ FreeIndexes # {}

NewPaymentId == PidOf[CHOOSE i \in FreeIndexes : \A j \in FreeIndexes : i <= j]

(***************************************************************************)
(* a2u_create (index.ts 213-282).                                          *)
(***************************************************************************)
PayloadAmounts ==
  {AmountUndef, AmountText, AmountInf, AmountNum(-1), AmountNum(0), AmountNum(5)}
PayloadUids == {Undef, JStr("  "), JStr("u1"), JStr("u2")}
PayloadMemos == {Undef, JStr("  "), JStr(" payout ")}
PayloadMetadata == {"missing", "text", "array", "object"}

Payloads ==
  {NoPayload} \cup
  [present : {TRUE}, amount : PayloadAmounts, uid : PayloadUids, memo : PayloadMemos,
   metadata : PayloadMetadata]

\* mutant: the metadata check without Array.isArray
PayloadErrorArrayAccepted(p) ==
  IF ~p.present THEN "Missing payment payload"
  ELSE IF BadAmount(p.amount) THEN "Invalid payment.amount"
  ELSE IF TrimmedString(p.uid) = "" THEN "Missing payment.uid"
  ELSE IF TrimmedString(p.memo) = "" THEN "Missing payment.memo"
  ELSE IF p.metadata \notin {"object", "array"} THEN "Missing payment.metadata object"
  ELSE ""

\* index.ts 214-234: the first validation that fails, "" when none does
PayloadError(p) ==
  IF ~p.present THEN "Missing payment payload"
  ELSE IF BadAmount(p.amount) THEN "Invalid payment.amount"
  ELSE IF TrimmedString(p.uid) = "" THEN "Missing payment.uid"
  ELSE IF TrimmedString(p.memo) = "" THEN "Missing payment.memo"
  ELSE IF p.metadata # "object" THEN "Missing payment.metadata object"
  ELSE ""

\* a small set of payloads: the valid ones and one that fails each validation
ValidPayload(uid) ==
  [present |-> TRUE, amount |-> AmountNum(5), uid |-> JStr(uid), memo |-> JStr(" payout "),
   metadata |-> "object"]

CorePayloads ==
  {ValidPayload(u) : u \in Users} \cup
  { NoPayload,
    [ValidPayload("u1") EXCEPT !.amount = AmountNum(0)],
    [ValidPayload("u1") EXCEPT !.uid = JStr("  ")],
    [ValidPayload("u1") EXCEPT !.memo = Undef],
    [ValidPayload("u1") EXCEPT !.metadata = "array"] }

CreateValidate(r, payloads) ==
  /\ req[r].pc = "dispatch"
  /\ req[r].action = "a2u_create"
  /\ \E p \in payloads :
       LET q == [req[r] EXCEPT !.payment = p, !.uid = TrimmedString(p.uid)]
       IN  req' = [req EXCEPT ![r] =
             IF PayloadError(p) # ""
               THEN Respond(q, ErrorResponse(PayloadError(p), 400))
               ELSE Await(q, "w_list", Get("incomplete_server_payments", ""))]
  /\ UNCHANGED <<env, norm, page, payments, ledger, last, served>>

\* mutant: a request is turned away while another one has its create call
\* in flight, as a local lock on payout creation would do
PendingDecisionExclusive(ok, pendingList, uid) ==
  IF \E r \in Slots : req[r].pc = "w_create" THEN "conflict"
  ELSE IF ok /\ Len(pendingList) > 0 THEN "reuse"
  ELSE "create"

\* index.ts 244-264: what the handler does with the answer to the list query
PendingDecision(ok, pendingList, uid) ==
  IF ok /\ Len(pendingList) > 0
    THEN LET pendingUid == Trim(pendingList[1].user_uid)
         IN  IF pendingUid # "" /\ pendingUid # uid THEN "conflict" ELSE "reuse"
    ELSE "create"

ConflictMessage ==
  "Another incomplete A2U payout exists. Complete/cancel it before creating a new payout."

CreateListResp(r) ==
  /\ req[r].pc = "w_list"
  /\ \/ req' = [req EXCEPT ![r] = Caught(Answered(@, 0, EmptyBody), FetchRejected)]
     \/ \E ok \in BOOLEAN : \E eb \in IF ok THEN {EmptyBody} ELSE ErrBodies :
          /\ LET q == Answered(req[r], IF ok THEN 200 ELSE 500, eb)
                 pendingList == IncompleteServerPayments
                 decision == PendingDecision(ok, pendingList, q.uid)
             IN  req' = [req EXCEPT ![r] =
                   CASE decision = "conflict" ->
                          Respond(q, ErrorResponse(ConflictMessage, 409))
                     [] decision = "reuse" ->
                          Respond(q, SuccessResponse(pendingList[1].identifier,
                                                     pendingList[1].user_uid, TRUE))
                     [] OTHER ->
                          Await(q, "w_create", Call("create", "", <<q.payment.uid.val>>))]
  /\ UNCHANGED <<env, norm, page, payments, ledger, last, served>>

CreatePostResp(r) ==
  /\ req[r].pc = "w_create"
  /\ \/ /\ req' = [req EXCEPT ![r] = Caught(Answered(@, 0, EmptyBody), FetchRejected)]
        /\ UNCHANGED payments
     \/ \E ok \in BOOLEAN, eb \in ErrBodies :
          LET status == IF ok THEN 400 ELSE 500
          IN  IF ok /\ PlatformAcceptsCreate
                THEN /\ eb = EmptyBody
                     /\ payments' = [payments EXCEPT ![NewPaymentId] =
                           [status |-> "incomplete", uid |-> req[r].payment.uid.val,
                            direction |-> "app_to_user", txid |-> ""]]
                     /\ req' = [req EXCEPT ![r] =
                           Respond(Answered(@, 200, EmptyBody),
                             SuccessResponse(NewPaymentId, @.payment.uid.val, FALSE))]
                ELSE /\ req' = [req EXCEPT ![r] =
                           Respond(Answered(@, status, eb), UpstreamError(
                             getPiErrorMessage(eb, CreateFallback(status)), status, eb))]
                     /\ UNCHANGED payments
  /\ UNCHANGED <<env, norm, page, ledger, last, served>>

(***************************************************************************)
(* auth_verify (index.ts 132-161): no session, the access token is         *)
(* forwarded to the platform's identity endpoint.                          *)
(***************************************************************************)
AuthVerify(r) ==
  /\ req[r].pc = "auth_verify"
  /\ \E accessToken \in {Undef, JStr("tok")} :
       req' = [req EXCEPT ![r] =
         IF ~Truthy(accessToken)
           THEN Respond(@, ErrorResponse("Missing accessToken", 400))
           ELSE Await(@, "w_me", Get("me", ""))]
  /\ UNCHANGED <<env, norm, page, payments, ledger, last, served>>

\* what GET /v2/me answers with a 2xx: the uid and the username keys
MeBodies ==
  { [EmptyBody EXCEPT !.uid = u, !.username = n] :
      u \in {Undef, JStr(""), JStr("u1")}, n \in {Undef, JStr("alice")} }

\* mutant: a 2xx answer is enough, the uid is not looked at
AuthVerifiedAnyUid(ok, data) == ok

\* index.ts 146-153: the identity is verified when the answer is 2xx and its
\* uid is a non-empty string
AuthVerified(ok, data) == ok /\ Truthy(data.uid)

AuthVerifyResp(r) ==
  /\ req[r].pc = "w_me"
  /\ \/ req' = [req EXCEPT ![r] = Caught(Answered(@, 0, EmptyBody), FetchRejected)]
     \/ \E ok \in BOOLEAN : \E data \in IF ok THEN MeBodies ELSE ErrBodies :
          /\ req' = [req EXCEPT ![r] =
               LET q == Answered(@, IF ok THEN 200 ELSE 401, data)
               IN  IF ~ok
                     THEN Respond(q, UpstreamError("Pi auth verification failed", 401, data))
                   ELSE IF ~AuthVerified(ok, data)
                     THEN Respond(q, ErrorResponse("Pi auth response missing uid", 400))
                   ELSE Respond(q, [SuccessResponse("", data.uid.val, FALSE) EXCEPT
                          !.username = IF data.username.str THEN data.username.val
                                       ELSE ""])]
  /\ UNCHANGED <<env, norm, page, payments, ledger, last, served>>

(***************************************************************************)
(* ad_verify (index.ts 173-195).                                           *)
(***************************************************************************)
AdVerify(r) ==
  /\ req[r].pc = "dispatch"
  /\ req[r].action = "ad_verify"
  /\ \E adId \in {Undef, JStr("ad1")} :
       req' = [req EXCEPT ![r] =
         IF ~Truthy(adId)
           THEN Respond(@, ErrorResponse("Missing adId", 400))
           ELSE Await(@, "w_ad", Get("ads_status", ""))]
  /\ UNCHANGED <<env, norm, page, payments, ledger, last, served>>

\* what GET /v2/ads_network/status/<adId> answers with a 2xx
AdBodies ==
  { [EmptyBody EXCEPT !.mediator_ack_status = a] :
      a \in {Undef, JStr("granted"), JStr("Granted"), JStr("revoked"), JStr("")} }

\* mutant: any acknowledgement status counts
RewardedAnyAck(data) == Truthy(data.mediator_ack_status)

\* index.ts 190-192: mediatorAckStatus === "granted"
Rewarded(data) ==
  LET mediatorAckStatus == data.mediator_ack_status
  IN  mediatorAckStatus.str /\ mediatorAckStatus.val = "granted"

AdVerifyResp(r) ==
  /\ req[r].pc = "w_ad"
  /\ \/ req' = [req EXCEPT ![r] = Caught(Answered(@, 0, EmptyBody), FetchRejected)]
     \/ \E ok \in BOOLEAN : \E data \in IF ok THEN AdBodies ELSE ErrBodies :
          /\ req' = [req EXCEPT ![r] =
               LET q == Answered(@, IF ok THEN 200 ELSE 500, data)
               IN  IF ~ok
                     THEN Respond(q, UpstreamError("Pi ad verification failed", 500, data))
                     ELSE Respond(q, [SuccessResponse("", "", FALSE) EXCEPT
                            !.rewarded = Rewarded(data), !.data = data])]
  /\ UNCHANGED <<env, norm, page, payments, ledger, last, served>>

(***************************************************************************)
(* a2u_config_status (index.ts 197-211).  PI_VALIDATION_KEY is read here   *)
(* and nowhere else, so its presence is drawn where it is read.            *)
(***************************************************************************)
ConfigStatus(r) ==
  /\ req[r].pc = "dispatch"
  /\ req[r].action = "a2u_config_status"
  /\ \E hasValidationKey \in BOOLEAN :
       req' = [req EXCEPT ![r] =
         Respond(@, [SuccessResponse("", "", FALSE) EXCEPT
                       !.flags = <<env.apiKey, hasValidationKey, env.seed # "",
                                   env.publicAddress # "">>])]
  /\ UNCHANGED <<env, norm, page, payments, ledger, last, served>>

(***************************************************************************)
(* a2u_incomplete (index.ts 284-298).                                      *)
(***************************************************************************)
Incomplete(r) ==
  /\ req[r].pc = "dispatch"
  /\ req[r].action = "a2u_incomplete"
  /\ req' = [req EXCEPT ![r] =
       Await(@, "w_incomplete", Get("incomplete_server_payments", ""))]
  /\ UNCHANGED <<env, norm, page, payments, ledger, last, served>>

IncompleteResp(r) ==
  /\ req[r].pc = "w_incomplete"
  /\ \/ req' = [req EXCEPT ![r] = Caught(Answered(@, 0, EmptyBody), FetchRejected)]
     \/ \E ok \in BOOLEAN : \E data \in IF ok THEN {EmptyBody} ELSE ErrBodies :
          /\ req' = [req EXCEPT ![r] =
               LET q == Answered(@, IF ok THEN 200 ELSE 500, data)
               IN  IF ~ok
                     THEN Respond(q, UpstreamError("Pi incomplete payments fetch failed",
                                                   500, data))
                     ELSE Respond(q, SuccessResponse("", "", FALSE))]
  /\ UNCHANGED <<env, norm, page, payments, ledger, last, served>>

(***************************************************************************)
(* approve / complete / cancel / get and their aliases (index.ts 300-372). *)
(***************************************************************************)
RawPaymentIds == {Undef, JStr("")} \cup {JStr(p) : p \in PaymentIds}
RawTxids == {Undef, JStr("  "), JStr(" H1 "), JStr("H1")}

\* mutant: the txid is used as given, without trim()
ExplicitTxidUntrimmed(txid) == IF txid.str THEN txid.val ELSE ""

\* index.ts 313: typeof txid === "string" ? txid.trim() : ""
ExplicitTxid(txid) == TrimmedString(txid)

\* mutant: an action that is none of the others is taken as a lookup
FinalEndpointDefaultGet(action) ==
  CASE action \in ApproveActions -> "approve"
    [] action \in CompleteActions -> "complete"
    [] action \in CancelActions -> "cancel"
    [] OTHER -> "get"

\* the endpoint suffix of the final call, "" for an action the handler rejects
FinalEndpoint(action) ==
  CASE action \in ApproveActions -> "approve"
    [] action \in CompleteActions -> "complete"
    [] action \in CancelActions -> "cancel"
    [] action \in GetActions -> "get"
    [] OTHER -> ""

\* mutant: every completion without txid looks the payment up first
FetchesPaymentEveryCompletion(action, explicitTxid) == explicitTxid = ""

\* mutant: the final call is always a POST
FinalMethodAlwaysPost(action) == "POST"

\* index.ts 306, 350-352: the method of the final call
FinalMethod(action) == IF action \in GetActions THEN "GET" ELSE "POST"

\* index.ts 316: the completion variant that looks the payment up first
FetchesPayment(action, explicitTxid) == explicitTxid = "" /\ action = "a2u_complete"

PaymentDispatch(r) ==
  /\ req[r].pc = "dispatch"
  /\ req[r].action \notin {"ad_verify", "a2u_config_status", "a2u_create", "a2u_incomplete"}
  /\ \E paymentId \in RawPaymentIds,
        txid \in IF req[r].action \in CompleteActions THEN RawTxids ELSE {Undef} :
       LET q == [req[r] EXCEPT !.paymentId = paymentId, !.txid = txid]
           pid == paymentId.val
           ep == FinalEndpoint(q.action)
           explicitTxid == ExplicitTxid(txid)
       IN  req' = [req EXCEPT ![r] =
             IF ~Truthy(paymentId) THEN Respond(q, ErrorResponse("Missing paymentId", 400))
             ELSE IF ep = "" THEN Respond(q, ErrorResponse("Invalid action", 400))
             ELSE IF ep # "complete"
               THEN Await(q, "w_final",
                      WithMethod(Call(ep, pid, NoBody), FinalMethod(q.action)))
             ELSE IF explicitTxid # ""
               THEN Await(q, "w_final", Call("complete", pid, TxidBody(explicitTxid)))
             ELSE IF FetchesPayment(q.action, explicitTxid)
               THEN Await(q, "w_fetch", Get("get", pid))
             ELSE Await(q, "w_final", Call("complete", pid, NoBody))]
  /\ UNCHANGED <<env, norm, page, payments, ledger, last, served>>

(***************************************************************************)
(* submitA2UTx (index.ts 62-117), up to its first await.                   *)
(***************************************************************************)
\* mutant: the derived address is not compared with the configured one
submitA2UTxErrorExpectedUnchecked(payment, walletPrivateSeed, expectedPublicAddress) ==
  LET signerAddress == PublicKeyOf(walletPrivateSeed)
      fromAddress == Trim(payment.from_address)
  IN  IF Trim(payment.identifier) = ""
        THEN "Missing payment identifier for blockchain submission"
      ELSE IF Trim(payment.to_address) = "" THEN "Missing payment recipient address"
      ELSE IF fromAddress = "" THEN "Missing payment sender address"
      ELSE IF BadAmount(payment.amount) THEN "Invalid payment amount"
      ELSE IF signerAddress = "" THEN "invalid encoded string"
      ELSE IF fromAddress # signerAddress
        THEN "Payment source address does not match the configured wallet seed"
      ELSE ""

\* mutant: the payment's source address is compared before the configured one
submitA2UTxErrorSourceFirst(payment, walletPrivateSeed, expectedPublicAddress) ==
  LET signerAddress == PublicKeyOf(walletPrivateSeed)
      expectedAddress == Trim(expectedPublicAddress)
      fromAddress == Trim(payment.from_address)
  IN  IF Trim(payment.identifier) = ""
        THEN "Missing payment identifier for blockchain submission"
      ELSE IF Trim(payment.to_address) = "" THEN "Missing payment recipient address"
      ELSE IF fromAddress = "" THEN "Missing payment sender address"
      ELSE IF BadAmount(payment.amount) THEN "Invalid payment amount"
      ELSE IF signerAddress = "" THEN "invalid encoded string"
      ELSE IF fromAddress # signerAddress
        THEN "Payment source address does not match the configured wallet seed"
      ELSE IF expectedAddress # "" /\ signerAddress # expectedAddress
        THEN "PI_WALLET_PRIVATE_SEED does not match PI_WALLET_PUBLIC_ADDRESS"
      ELSE ""

\* index.ts 67-86: the message of the first throw before any ledger call,
\* "" when the payment may be settled from this wallet
submitA2UTxError(payment, walletPrivateSeed, expectedPublicAddress) ==
  LET signerAddress == PublicKeyOf(walletPrivateSeed)
      expectedAddress == Trim(expectedPublicAddress)
      fromAddress == Trim(payment.from_address)
  IN  IF Trim(payment.identifier) = ""
        THEN "Missing payment identifier for blockchain submission"
      ELSE IF Trim(payment.to_address) = "" THEN "Missing payment recipient address"
      ELSE IF fromAddress = "" THEN "Missing payment sender address"
      ELSE IF BadAmount(payment.amount) THEN "Invalid payment amount"
      ELSE IF signerAddress = "" THEN "invalid encoded string"
      ELSE IF expectedAddress # "" /\ signerAddress # expectedAddress
        THEN "PI_WALLET_PRIVATE_SEED does not match PI_WALLET_PUBLIC_ADDRESS"
      ELSE IF fromAddress # signerAddress
        THEN "Payment source address does not match the configured wallet seed"
      ELSE ""

\* mutant: the transaction of the fetched record is not looked at
ExistingTxidIgnored(paymentData) == ""

\* index.ts 334: String(paymentData.transaction?.txid || "").trim()
ExistingTxid(paymentData) == Trim(paymentData.txid)

\* mutant: every payment without a transaction is settled, whatever its direction
RequiresSettlementAnyDirection(paymentData) == ExistingTxid(paymentData) = ""

\* index.ts 337: the fetched payment is an unsettled app-to-user payout
RequiresSettlement(paymentData) ==
  ExistingTxid(paymentData) = "" /\ Trim(paymentData.direction) = "app_to_user"

FetchedAmounts == {AmountUndef, AmountNum(0), AmountNum(5), AmountNumText(5)}

\* what GET /v2/payments/<id> answers for a payment the platform holds: the
\* direction and the transaction are the platform's state, the other fields
\* are the platform's to fill and are read only on the settlement path
FetchedRecords(pid, full) ==
  LET base == [NoRecord EXCEPT !.identifier = pid, !.to_address = "GU",
                 !.from_address = "GA", !.amount = AmountNum(5),
                 !.direction = payments[pid].direction, !.txid = payments[pid].txid]
  IN  IF ~RequiresSettlement(base) THEN {base}
      ELSE IF full
        THEN { [base EXCEPT !.identifier = i, !.to_address = t, !.from_address = f,
                  !.amount = a] :
               i \in {"", pid}, t \in {"", "GU"}, f \in Addresses, a \in FetchedAmounts }
        ELSE { base, [base EXCEPT !.from_address = "GB"], [base EXCEPT !.to_address = ""] }

FetchResp(r, full) ==
  /\ req[r].pc = "w_fetch"
  /\ LET pid == req[r].paymentId.val
     IN  \/ req' = [req EXCEPT ![r] = Caught(Answered(@, 0, EmptyBody), FetchRejected)]
         \/ \E ok \in BOOLEAN, eb \in ErrBodies :
              /\ ~ok \/ payments[pid].status = "none"
              /\ LET status == IF ok THEN 404 ELSE 500
                 IN  req' = [req EXCEPT ![r] =
                       Respond(Answered(@, status, eb), UpstreamError(
                         getPiErrorMessage(eb, PaymentFallback(status)), status, eb))]
         \/ /\ payments[pid].status # "none"
            /\ \E paymentData \in FetchedRecords(pid, full) :
                 LET f == [Answered(req[r], 200, EmptyBody) EXCEPT !.fetched = paymentData]
                     walletPrivateSeed == Trim(env.seed)
                     walletPublicAddress == Trim(env.publicAddress)
                     thrown == submitA2UTxError(paymentData, walletPrivateSeed,
                                                walletPublicAddress)
                 IN  req' = [req EXCEPT ![r] =
                       IF ExistingTxid(paymentData) # ""
                         THEN Await(f, "w_final",
                                Call("complete", pid, TxidBody(ExistingTxid(paymentData))))
                       ELSE IF ~RequiresSettlement(paymentData)
                         THEN Await(f, "w_final", Call("complete", pid, NoBody))
                       ELSE IF walletPrivateSeed = ""
                         THEN Respond([f EXCEPT !.readSeed = TRUE],
                                ErrorResponse("PI_WALLET_PRIVATE_SEED is not configured", 500))
                       ELSE IF thrown # ""
                         THEN Caught([f EXCEPT !.readSeed = TRUE], thrown)
                       ELSE Await([f EXCEPT !.readSeed = TRUE], "w_loadAccount",
                              Library("loadAccount", Trim(paymentData.identifier)))]
  /\ UNCHANGED <<env, norm, page, payments, ledger, last, served>>

(***************************************************************************)
(* submitA2UTx (index.ts 92-116): the three ledger calls.  A ledger call   *)
(* that fails raises an exception.                                         *)
(***************************************************************************)
LoadAccountResp(r) ==
  /\ req[r].pc = "w_loadAccount"
  /\ \E ok \in BOOLEAN :
       req' = [req EXCEPT ![r] =
         IF ok THEN Await(Answered(@, 200, EmptyBody), "w_fetchBaseFee",
                      Library("fetchBaseFee", ""))
         ELSE Caught(Answered(@, 404, EmptyBody), "Not Found")]
  /\ UNCHANGED <<env, norm, page, payments, ledger, last, served>>

BaseFeeResp(r) ==
  /\ req[r].pc = "w_fetchBaseFee"
  /\ \E ok \in BOOLEAN :
       req' = [req EXCEPT ![r] =
         IF ok THEN Await(Answered(@, 200, EmptyBody), "w_submit",
                      Library("submitTransaction", Trim(@.fetched.identifier)))
         ELSE Caught(Answered(@, 0, EmptyBody), "Network Error")]
  /\ UNCHANGED <<env, norm, page, payments, ledger, last, served>>

\* mutant: only the hash key of the submission is read
SubmittedHashOnly(submitted) == Trim(submitted.hash)

\* index.ts 114: String(submitted.hash || submitted.id || "").trim()
SubmittedHash(submitted) ==
  Trim(IF submitted.hash # "" THEN submitted.hash ELSE submitted.id)

\* what the ledger answers when it accepts the transaction as its n-th
Submissions(n) ==
  { [hash |-> HashOf[n], id |-> HashOf[n]], [hash |-> "", id |-> HashOf[n]],
    [hash |-> "", id |-> ""] }

\* the submission as the parsed answer of the call ("" is the absent key)
SubmissionBody(submitted) ==
  [EmptyBody EXCEPT !.hash = IF submitted.hash = "" THEN Undef ELSE JStr(submitted.hash),
                    !.id = IF submitted.id = "" THEN Undef ELSE JStr(submitted.id)]

SubmitResp(r) ==
  /\ req[r].pc = "w_submit"
  /\ LET memo == Trim(req[r].fetched.identifier)
     IN  \/ /\ req' = [req EXCEPT ![r] =
                  Caught(Answered(@, 400, EmptyBody), "Request failed with status code 400")]
            /\ UNCHANGED ledger
         \/ /\ Len(ledger) < MaxLedgerTx
            /\ \E submitted \in Submissions(Len(ledger) + 1) :
                 /\ ledger' = Append(ledger,
                      [memo |-> memo, hash |-> HashOf[Len(ledger) + 1],
                       reported |-> SubmittedHash(submitted) # ""])
                 /\ req' = [req EXCEPT ![r] =
                      LET q == Answered(@, 200, SubmissionBody(submitted))
                      IN  IF SubmittedHash(submitted) = ""
                            THEN Caught(q, "Pi blockchain submission did not return txid")
                            ELSE Await(q, "w_final",
                                   Call("complete", q.paymentId.val,
                                        TxidBody(SubmittedHash(submitted))))]
  /\ UNCHANGED <<env, norm, page, payments, last, served>>

(***************************************************************************)
(* The final platform call (index.ts 357-372) and what the platform does   *)
(* with it.                                                                *)
(***************************************************************************)
\* whether the platform takes the call: the payment exists, and a state
\* change (approve, complete, cancel) is of a payment still incomplete
PlatformAccepts(call) ==
  /\ payments[call.pid].status # "none"
  /\ call.ep # "get" => payments[call.pid].status = "incomplete"

PlatformApply(call) ==
  CASE call.ep = "complete" ->
         [payments EXCEPT ![call.pid].status = "completed",
                          ![call.pid].txid = IF call.body = NoBody THEN @ ELSE call.body[1]]
    [] call.ep = "cancel" -> [payments EXCEPT ![call.pid].status = "cancelled"]
    [] OTHER -> payments

FinalResp(r) ==
  /\ req[r].pc = "w_final"
  /\ LET call == req[r].calls[Len(req[r].calls)]
     IN  \/ /\ req' = [req EXCEPT ![r] = Caught(Answered(@, 0, EmptyBody), FetchRejected)]
            /\ UNCHANGED payments
         \/ \E ok \in BOOLEAN, eb \in ErrBodies :
              IF ok /\ PlatformAccepts(call)
                THEN /\ eb = EmptyBody
                     /\ payments' = PlatformApply(call)
                     /\ req' = [req EXCEPT ![r] =
                          Respond(Answered(@, 200, EmptyBody),
                            SuccessResponse(call.pid, payments[call.pid].uid, FALSE))]
                ELSE LET status == IF ~ok THEN 500
                                   ELSE IF payments[call.pid].status = "none" THEN 404
                                   ELSE 400
                     IN  /\ req' = [req EXCEPT ![r] =
                                Respond(Answered(@, status, eb), UpstreamError(
                                  getPiErrorMessage(eb, PaymentFallback(status)), status, eb))]
                         /\ UNCHANGED payments
  /\ UNCHANGED <<env, norm, page, ledger, last, served>>

(***************************************************************************)
Finish(r) ==
  /\ req[r].pc = "done"
  /\ last' = IF req[r].action = "a2u_create" /\ req[r].resp.success /\ ~req[r].resp.reused
               THEN [uid |-> req[r].uid, pid |-> req[r].resp.pid]
               ELSE NoLast
  /\ req' = [req EXCEPT ![r] = IdleReq]
  /\ UNCHANGED <<env, norm, page, payments, ledger, served>>

Next ==
  \/ Preflight(1)
  \/ Receive(1, Actions)
  \/ Session(1)
  \/ GetUserResp(1)
  \/ CreateValidate(1, Payloads)
  \/ CreateListResp(1)
  \/ CreatePostResp(1)
  \/ AuthVerify(1)
  \/ AuthVerifyResp(1)
  \/ AdVerify(1)
  \/ AdVerifyResp(1)
  \/ ConfigStatus(1)
  \/ Incomplete(1)
  \/ IncompleteResp(1)
  \/ PaymentDispatch(1)
  \/ FetchResp(1, TRUE)
  \/ LoadAccountResp(1)
  \/ BaseFeeResp(1)
  \/ SubmitResp(1)
  \/ FinalResp(1)
  \/ Finish(1)

Spec == Init /\ [][Next]_vars

(***************************************************************************)
(* Concurrent requests.  The handler is stateless and every await is a     *)
(* point where another request may run, so two requests in flight          *)
(* interleave at the granularity of the actions above.                     *)
(*   SpecCreate    two clients calling a2u_create on a deployment with no  *)
(*                 payment yet                                             *)
(*   SpecComplete  two clients calling a2u_complete, without txid, for     *)
(*                 the open payout P1                                      *)
(***************************************************************************)
InitCreate == StartWith({NominalEnv}, {NoPayment})

NextCreate ==
  \/ \E r \in Slots : Receive(r, {"a2u_create"})
  \/ \E r \in Slots : Session(r)
  \/ \E r \in Slots : GetUserResp(r)
  \/ \E r \in Slots : CreateValidate(r, CorePayloads)
  \/ \E r \in Slots : CreateListResp(r)
  \/ \E r \in Slots : CreatePostResp(r)
  \/ \E r \in Slots : Finish(r)

SpecCreate == InitCreate /\ [][NextCreate]_vars

InitComplete == StartWith({NominalEnv}, {OpenPayout})

NextComplete ==
  \/ \E r \in Slots : Receive(r, {"a2u_complete"})
  \/ \E r \in Slots : Session(r)
  \/ \E r \in Slots : GetUserResp(r)
  \/ \E r \in Slots : PaymentDispatch(r)
  \/ \E r \in Slots : FetchResp(r, FALSE)
  \/ \E r \in Slots : LoadAccountResp(r)
  \/ \E r \in Slots : BaseFeeResp(r)
  \/ \E r \in Slots : SubmitResp(r)
  \/ \E r \in Slots : FinalResp(r)
  \/ \E r \in Slots : Finish(r)

SpecComplete == InitComplete /\ [][NextComplete]_vars

(***************************************************************************)
(* a2u_create against whatever list of incomplete payments the platform    *)
(* returns: none, one or two entries, of either user or carrying no        *)
(* user_uid (the handler reads the key as String(user_uid || "")).         *)
(***************************************************************************)
\* an incomplete A2U payment as the platform lists it, "" for no user_uid
ListedPayout(uid) ==
  [status |-> "incomplete", uid |-> uid, direction |-> "app_to_user", txid |-> ""]

InitListed ==
  /\ env = NominalEnv
  /\ payments \in [PaymentIds -> {NoPayment} \cup {ListedPayout(u) : u \in Users \cup {""}}]
  /\ ledger = <<>>
  /\ req = [r \in Slots |-> IdleReq]
  /\ last = NoLast
  /\ served = 0
  /\ norm = NoNorm
  /\ page = IdlePage

NextListed ==
  \/ Receive(1, {"a2u_create"})
  \/ Session(1)
  \/ GetUserResp(1)
  \/ CreateValidate(1, CorePayloads)
  \/ CreateListResp(1)
  \/ CreatePostResp(1)
  \/ Finish(1)

SpecListed == InitListed /\ [][NextListed]_vars

(***************************************************************************)
(* PiAuthPage.tsx: the Pi sign-in page.  handlePiAuth is one asynchronous  *)
(* flow; each action below is the answer to the call it awaits and the     *)
(* code up to its next await, its return or its catch/finally.             *)
(***************************************************************************)
\* .trim().toUpperCase() of the query parameters and codes of the model
TrimUpper(s) ==
  CASE s = " ab12 " -> "AB12"
    [] s = "  " -> ""
    [] OTHER -> s

\* .trim().toLowerCase() of the profile user names of the model
TrimLower(s) ==
  CASE s = "Alice" -> "alice"
    [] s = "  " -> ""
    [] OTHER -> s

\* the query strings the page is opened with
SearchParams ==
  [auth_code : {"", " ab12 "}, openpay_code : {"", "  "}, code : {"", "AB12"}]

\* (get("auth_code") || get("openpay_code") || get("code") || "").trim().toUpperCase()
incomingCode(sp) ==
  TrimUpper(IF sp.auth_code # "" THEN sp.auth_code
            ELSE IF sp.openpay_code # "" THEN sp.openpay_code
            ELSE sp.code)

\* user.id of the signed-in Supabase user
UserId == "id01"

\* value.trim().toLowerCase().replace(/^@+/, "").replace(/[^a-z0-9_]/g, "").slice(0, 20)
normalizeUsername(value) ==
  CASE value = "Bob" -> "bob"
    [] value = "@al" -> "al"
    [] value = "  " -> ""
    [] OTHER -> value

\* `_${index}`, "" for the first candidate
Suffix(index) == IF index = 0 THEN "" ELSE <<"_1", "_2", "_3", "_4", "_5">>[index]

\* safeBase padded with "x" to three characters
minBase(baseValue, userId) ==
  LET safeBase == IF normalizeUsername(baseValue) # ""
                  THEN normalizeUsername(baseValue) ELSE "pi_" \o userId
  IN  CASE Len(safeBase) = 1 -> safeBase \o "xx"
        [] Len(safeBase) = 2 -> safeBase \o "x"
        [] OTHER -> safeBase

\* resolveUniqueUsername when its first `free` candidates are taken and the
\* next is free; free = 6 stands for six taken candidates or a failed
\* lookup, which both leave the loop for the fallback name.  The names of
\* the model are shorter than the slices, which keep them whole.
resolveUniqueUsername(baseValue, userId, free) ==
  IF free < 6 THEN minBase(baseValue, userId) \o Suffix(free)
  ELSE minBase(baseValue, userId) \o "_" \o userId

\* s.startsWith("pi_") over the user names of the model
StartsWithPi(s) ==
  \E b \in {"pi_bob", "pi_u1", "pi_" \o UserId} :
    \E t \in {Suffix(i) : i \in 0..5} \cup {"_" \o UserId} : s = b \o t

\* /^[a-z0-9_]{3,20}$/.test(s) over the profile user names of the model
WellFormedUsername(s) == s \in {"alice", "pi_u1"}

\* the profiles row of the user; a missing row reads as two empty strings
Profiles == [full_name : {"", "  ", "Alice"}, username : {"", "pi_u1", "Alice", "al ice"}]

InitPiAuth ==
  /\ env = NominalEnv
  /\ payments = [p \in PaymentIds |-> NoPayment]
  /\ ledger = <<>>
  /\ req = [r \in Slots |-> IdleReq]
  /\ last = NoLast
  /\ served = 0
  /\ norm = NoNorm
  /\ page \in { [IdlePage EXCEPT !.searchParams = sp, !.sdk = k, !.session = s] :
                  sp \in SearchParams, k \in {"ok", "partial", "throws"}, s \in BOOLEAN }

PageStep(p) ==
  /\ page' = p
  /\ UNCHANGED <<env, payments, ledger, req, last, served, norm>>

\* catch: toast.error(message); finally: setBusyAuth(false)
Failed(p, message) ==
  [p EXCEPT !.pc = "done", !.toast = message, !.busyAuth = FALSE]

\* a return inside the try block; finally: setBusyAuth(false)
Returned(p, to) ==
  [p EXCEPT !.pc = "done", !.navigated = to, !.busyAuth = FALSE]

\* setPiUser, toast.success, navigate("/dashboard"); finally: setBusyAuth(false)
SignedIn(p) ==
  [p EXCEPT !.pc = "done", !.piUser = [uid |-> p.verified.uid, username |-> p.username],
            !.navigated = "/dashboard", !.busyAuth = FALSE]

\* the two effects of the page: an open session without an incoming code
\* leaves for the dashboard; an incoming code becomes the authorization code
Mount ==
  /\ page.pc = "mounted"
  /\ LET code == incomingCode(page.searchParams)
     IN  PageStep([page EXCEPT
           !.pc = IF page.session /\ code = "" THEN "left" ELSE "idle",
           !.navigated = IF page.session /\ code = "" THEN "/dashboard" ELSE "",
           !.authorizationCode = IF code # "" THEN code ELSE page.authorizationCode])

\* the button, disabled while busy: expectedCode, initPi, setBusyAuth(true),
\* Pi.authenticate
HandlePiAuth ==
  /\ page.pc = "idle"
  /\ ~page.busyAuth
  /\ LET p == [page EXCEPT !.expectedCode = TrimUpper(page.authorizationCode)]
     IN  PageStep(
           CASE page.sdk = "partial" ->
                  [p EXCEPT !.pc = "done", !.toast = "Pi SDK not loaded"]
             [] page.sdk = "throws" ->
                  [p EXCEPT !.pc = "done", !.toast = "Pi SDK failed to initialize"]
             [] OTHER -> [p EXCEPT !.pc = "authenticate", !.busyAuth = TRUE])

\* await window.Pi.authenticate(["username"])
Authenticate ==
  /\ page.pc = "authenticate"
  /\ \/ PageStep(Failed(page, "Pi auth failed"))
     \/ \E u \in {"Bob", "pi_bob"} :
          PageStep([page EXCEPT !.pc = "verify", !.authUsername = u])

\* await verifyPiAccessToken(auth.accessToken); username
VerifyPiAccessToken ==
  /\ page.pc = "verify"
  /\ \/ PageStep(Failed(page, "Pi auth verification failed"))
     \/ \E u \in {"", "@al"} :
          PageStep([page EXCEPT !.pc = "signIn",
                                !.verified = [uid |-> "u1", username |-> u],
                                !.username = IF u # "" THEN u ELSE page.authUsername])

\* signInPiBackedAccount: the first doSignIn
FirstSignIn ==
  /\ page.pc = "signIn"
  /\ \E outcome \in {"session", "accountMissing", "error", "neither"} :
       PageStep(
         CASE outcome = "session" -> [page EXCEPT !.pc = "getUser", !.session = TRUE]
           [] outcome = "accountMissing" -> [page EXCEPT !.pc = "signUp"]
           [] outcome = "error" -> Failed(page, "sign in failed")
           [] OTHER -> Failed(page, "Failed to sign in Pi account"))

\* signInPiBackedAccount: supabase.auth.signUp
SignUp ==
  /\ page.pc = "signUp"
  /\ \E outcome \in {"created", "already registered", "error"} :
       PageStep(
         CASE outcome = "created" -> [page EXCEPT !.pc = "signInAgain", !.created = TRUE]
           [] outcome = "already registered" -> [page EXCEPT !.pc = "signInAgain"]
           [] OTHER -> Failed(page, "Failed to create Pi account"))

\* signInPiBackedAccount: the second doSignIn
SecondSignIn ==
  /\ page.pc = "signInAgain"
  /\ \/ PageStep([page EXCEPT !.pc = "getUser", !.session = TRUE])
     \/ PageStep(Failed(page, "Failed to sign in Pi account"))

\* await supabase.auth.getUser(); without a user the flow goes straight to
\* its successful end
CurrentUser ==
  /\ page.pc = "getUser"
  /\ \/ PageStep([page EXCEPT !.pc = "updateUser"])
     \/ PageStep(SignedIn(page))

\* await supabase.auth.updateUser: an error is a toast only
UpdateUser ==
  /\ page.pc = "updateUser"
  /\ \E error \in BOOLEAN :
       PageStep([page EXCEPT !.pc = "profile",
                             !.toast = IF error THEN "profile update failed" ELSE page.toast])

\* the profiles row: existingName, existingUsername, shouldRefreshUsername,
\* preferredName
LoadProfile ==
  /\ page.pc = "profile"
  /\ \E profile \in Profiles :
       LET existingName == Trim(profile.full_name)
           existingUsername == TrimLower(profile.username)
           shouldRefreshUsername ==
             \/ existingUsername = ""
             \/ StartsWithPi(existingUsername)
             \/ ~WellFormedUsername(existingUsername)
           preferredName ==
             IF existingName # "" THEN existingName
             ELSE IF page.username # "" THEN page.username
             ELSE "Pi User " \o page.verified.uid
       IN  PageStep([page EXCEPT
             !.pc = IF shouldRefreshUsername THEN "resolve" ELSE "profileSync",
             !.preferredName = preferredName,
             !.preferredUsername = IF shouldRefreshUsername THEN "" ELSE existingUsername])

\* await resolveUniqueUsername(username || verified.uid, user.id)
ResolveUsername ==
  /\ page.pc = "resolve"
  /\ \E free \in 0..6 :
       PageStep([page EXCEPT
         !.pc = "profileSync",
         !.preferredUsername =
            resolveUniqueUsername(IF page.username # "" THEN page.username
                                  ELSE page.verified.uid, UserId, free)])

\* the profiles update: an error is a toast only
ProfileSync ==
  /\ page.pc = "profileSync"
  /\ \E error \in BOOLEAN :
       PageStep([page EXCEPT !.pc = "accountSync",
                             !.toast = IF error THEN "profile sync failed" ELSE page.toast])

\* needsProfileSetup, computed once the account sync has answered
needsProfileSetup(p) ==
  \/ p.created
  \/ Trim(p.preferredName) = ""
  \/ Trim(p.preferredUsername) = ""
  \/ StartsWithPi(p.preferredUsername)

\* rpc("upsert_my_user_account"): an error is a toast only; then profile
\* setup, the code check or the successful end
AccountSync ==
  /\ page.pc = "accountSync"
  /\ \E error \in BOOLEAN :
       LET p == [page EXCEPT !.toast = IF error THEN "account sync failed" ELSE page.toast]
       IN  PageStep(
             IF needsProfileSetup(p) THEN Returned(p, "/setup-profile")
             ELSE IF p.expectedCode # "" THEN [p EXCEPT !.pc = "verifyCode"]
             ELSE SignedIn(p))

\* rpc("verify_my_openpay_authorization_code", { p_code: expectedCode })
VerifyCode ==
  /\ page.pc = "verifyCode"
  /\ \E outcome \in {"match", "mismatch", "error"} :
       PageStep(
         CASE outcome = "match" -> SignedIn([page EXCEPT !.isMatch = "match"])
           [] outcome = "mismatch" -> [page EXCEPT !.pc = "signOut", !.isMatch = "mismatch"]
           [] OTHER -> Failed(page, "Authorization code verification failed"))

\* await supabase.auth.signOut(), its result unread: the session ends when
\* the call succeeds; then the throw
SignOut ==
  /\ page.pc = "signOut"
  /\ \E signedOut \in BOOLEAN :
       PageStep(Failed([page EXCEPT !.session = page.session /\ ~signedOut],
                       "Invalid or expired authorization code"))

NextPiAuth ==
  \/ Mount
  \/ HandlePiAuth
  \/ Authenticate
  \/ VerifyPiAccessToken
  \/ FirstSignIn
  \/ SignUp
  \/ SecondSignIn
  \/ CurrentUser
  \/ UpdateUser
  \/ LoadProfile
  \/ ResolveUsername
  \/ ProfileSync
  \/ AccountSync
  \/ VerifyCode
  \/ SignOut

SpecPiAuth == InitPiAuth /\ [][NextPiAuth]_vars

(***************************************************************************)
(* The response normalizer on its own (index.ts 18-44): a response text    *)
(* is parsed, then the error message is extracted from the parse.          *)
(***************************************************************************)
\* the value of the data key: absent (or not an object, or an array), or an
\* object with its error and message keys
DataValues ==
  {NoData} \cup
  { [obj |-> TRUE, error |-> e, message |-> m] :
      e \in {Undef, JStr("nested error")}, m \in {Undef, JStr("nested message")} }

JsonBodies ==
  { [EmptyBody EXCEPT !.error = e, !.message = m, !.data = d] :
      e \in {Undef, JStr("  "), JStr("payment_error")},
      m \in {Undef, JStr("  "), JStr(" not found ")},
      d \in DataValues }

ResponseTexts == {EmptyText, NotJson("not json")} \cup {JsonText(b) : b \in JsonBodies}
Fallbacks == {"X failed", "Pi payment API call failed (status 500)"}

InitNormalizer ==
  /\ env = NominalEnv
  /\ payments = [p \in PaymentIds |-> NoPayment]
  /\ ledger = <<>>
  /\ req = [r \in Slots |-> IdleReq]
  /\ last = NoLast
  /\ served = 0
  /\ norm \in { [NoNorm EXCEPT !.pc = "raw", !.raw = t, !.fallback = f] :
                  t \in ResponseTexts, f \in Fallbacks }
  /\ page = IdlePage

\* const data = parseJson(await piResponse.text())
NormParse ==
  /\ norm.pc = "raw"
  /\ norm' = [norm EXCEPT !.pc = "parsed", !.payload = parseJson(norm.raw)]
  /\ UNCHANGED <<env, payments, ledger, req, last, served, page>>

\* getPiErrorMessage(data, fallback)
NormExtract ==
  /\ norm.pc = "parsed"
  /\ norm' = [norm EXCEPT !.pc = "extracted",
                          !.message = getPiErrorMessage(norm.payload, norm.fallback)]
  /\ UNCHANGED <<env, payments, ledger, req, last, served, page>>

NextNormalizer == NormParse \/ NormExtract

SpecNormalizer == InitNormalizer /\ [][NextNormalizer]_vars

(***************************************************************************)
(* Properties.  What a request did is read from its record: the calls it   *)
(* issued, in order, and its response.                                     *)
(***************************************************************************)
Done(r) == req[r].pc = "done"
PlatformCalls(q) == CallsTo(q, PlatformEndpoints)
LedgerCalls(q) == CallsTo(q, LedgerEndpoints)
CompleteCalls(q) == CallsTo(q, {"complete"})
\* the transactions of payment p the ledger accepted and answered with a hash
SubmissionsFor(p) == {k \in 1..Len(ledger) : ledger[k].memo = p /\ ledger[k].reported}
\* the request has read its paymentId and txid (PaymentDispatch has run)
Dispatched(q) == q.paymentId # Undef
\* the request has fetched the payment record (a2u_complete, 2xx)
Fetched(q) == q.fetched # NoRecord

(* C1: no completion request (complete, payment_complete, a2u_complete)    *)
(* has the platform 'complete' call pending for an app_to_user payment     *)
(* that carries no settled transaction id unless the call's body carries   *)
(* a transaction id, the caller's or one the ledger returned to this       *)
(* request.  Fails: complete / payment_complete send an empty body         *)
(* whatever the payment's direction.                                       *)
C1_CompleteCarriesTxid ==
  \A r \in Slots :
    LET q == req[r]
        call == q.calls[Len(q.calls)]
    IN  ( /\ q.pc = "w_final"
          /\ q.action \in CompleteActions
          /\ call.ep = "complete"
          /\ payments[call.pid].direction = "app_to_user"
          /\ payments[call.pid].txid = "" )
        => /\ call.body # NoBody
           /\ \/ call.body = TxidBody(ExplicitTxid(q.txid))
              \/ /\ CallsTo(q, {"submitTransaction"}) # {}
                 /\ \E k \in 1..Len(ledger) : call.body = TxidBody(ledger[k].hash)

(* C2: a request makes a ledger call only if the address derived from the  *)
(* wallet secret equals the configured expected address (when one is       *)
(* configured) and the fetched payment's source address; and a settlement  *)
(* attempt with either mismatch ends the request with HTTP 500, without    *)
(* any ledger call or platform 'complete' call, the error being the        *)
(* configuration error of that mismatch when the payment's fields are      *)
(* valid.                                                                  *)
SignerAddress == PublicKeyOf(Trim(env.seed))
ExpectedMismatch == Trim(env.publicAddress) # "" /\ SignerAddress # Trim(env.publicAddress)
SourceMismatch(q) == q.fetched.from_address # SignerAddress
\* submitA2UTx was called with a secret an address derives from
SettlementAttempt(q) == q.readSeed /\ SignerAddress # ""
FieldsValid(rec) ==
  /\ rec.identifier # ""
  /\ rec.to_address # ""
  /\ rec.from_address # ""
  /\ rec.amount.t \in {"num", "numtext"}
  /\ rec.amount.n > 0

C2_AddressesChecked ==
  \A r \in Slots :
    LET q == req[r]
    IN  /\ LedgerCalls(q) # {} =>
             /\ SignerAddress # ""
             /\ ~ExpectedMismatch
             /\ ~SourceMismatch(q)
        /\ (SettlementAttempt(q) /\ (ExpectedMismatch \/ SourceMismatch(q))) =>
             /\ Done(r)
             /\ q.resp.status = 500
             /\ LedgerCalls(q) = {}
             /\ CompleteCalls(q) = {}
             /\ FieldsValid(q.fetched) =>
                  q.resp.error =
                    IF ExpectedMismatch
                      THEN "PI_WALLET_PRIVATE_SEED does not match PI_WALLET_PUBLIC_ADDRESS"
                      ELSE "Payment source address does not match the configured wallet seed"

\* C2 witness: a settlement attempt on a payment with valid fields ended on
\* the mismatch between the derived and the configured address
C2_Witness ==
  \E r \in Slots :
    /\ Done(r)
    /\ SettlementAttempt(req[r])
    /\ FieldsValid(req[r].fetched)
    /\ ExpectedMismatch
    /\ req[r].resp.error = "PI_WALLET_PRIVATE_SEED does not match PI_WALLET_PUBLIC_ADDRESS"

(* C3: an a2u_create request has the platform create-payment call pending  *)
(* only if no incomplete A2U payment exists on the platform (in Spec       *)
(* nothing runs between the answer to the list query and the create        *)
(* call).  Fails: a list query answered non-2xx falls through to create.   *)
C3_CreateOnlyWhenNoneIncomplete ==
  \A r \in Slots :
    req[r].pc = "w_create" => IncompleteServerPayments = <<>>

(* C4: when the previous request was an a2u_create of the same user that   *)
(* created a payment, a finished a2u_create with a valid payload issued    *)
(* no create call and answered reusedIncomplete: true with that payment's  *)
(* identifier.  Fails with C3: the list query answered non-2xx.            *)
C4_SecondCallReuses ==
  \A r \in Slots :
    LET q == req[r]
    IN  ( /\ Done(r)
          /\ q.action = "a2u_create"
          /\ q.payment.present
          /\ PayloadError(q.payment) = ""
          /\ last # NoLast
          /\ last.uid = q.uid )
        => /\ CallsTo(q, {"create"}) = {}
           /\ q.resp.success
           /\ q.resp.reused
           /\ q.resp.pid = last.pid

(* C5: a finished a2u_create with a valid payload for user B, while an     *)
(* incomplete A2U payment of another user A exists, answered 409, issued   *)
(* no create call and did not return A's payment.  Fails with C3.          *)
C5_OtherUsersPayoutConflicts ==
  \A r \in Slots : \A p \in PaymentIds :
    LET q == req[r]
    IN  ( /\ Done(r)
          /\ q.action = "a2u_create"
          /\ q.payment.present
          /\ PayloadError(q.payment) = ""
          /\ IsIncompleteA2U(p)
          /\ payments[p].uid # q.uid )
        => /\ q.resp.status = 409
           /\ CallsTo(q, {"create"}) = {}
           /\ q.resp.pid # p

(* C6: at most one ledger transaction is successfully submitted (accepted  *)
(* and its hash returned) per payment, whatever a2u_complete requests      *)
(* were made and however they ended.  Fails: a retry after a failed        *)
(* platform 'complete' call finds no txid on the record and submits again. *)
C6_AtMostOneSubmission ==
  \A p \in PaymentIds : Cardinality(SubmissionsFor(p)) <= 1

\* the a2u_complete requests that gave no usable txid and whose fetched
\* record already carries a transaction id
ReusesExisting(q) ==
  /\ q.action = "a2u_complete"
  /\ Dispatched(q)
  /\ (~q.txid.str \/ Trim(q.txid.val) = "")
  /\ Fetched(q)
  /\ q.fetched.txid # ""

(* C7: an a2u_complete request without explicit txid whose fetched payment *)
(* record already carries a transaction id makes no ledger call, does not  *)
(* read the wallet secret, and issues one platform 'complete' call, for    *)
(* the requested payment, with the body {txid: <the existing id>}.         *)
C7_ExistingTxidReused ==
  \A r \in Slots :
    LET q == req[r]
    IN  ReusesExisting(q) =>
          /\ LedgerCalls(q) = {}
          /\ ~q.readSeed
          /\ q.pc \in {"w_final", "done"}
          /\ Cardinality(CompleteCalls(q)) = 1
          /\ \A i \in CompleteCalls(q) :
               /\ i = Len(q.calls)
               /\ q.calls[i].pid = q.paymentId.val
               /\ q.calls[i].body = TxidBody(q.fetched.txid)

\* C7 witness: such a request ran to its response while the wallet secret
\* was configured
C7_Witness ==
  \E r \in Slots :
    /\ Done(r)
    /\ ReusesExisting(req[r])
    /\ env.seed = "S1"
    /\ ~Truthy(req[r].txid)

\* what a completion request with a paymentId and the explicit txid t must
\* have done: one platform call, the 'complete' call with body {txid: t}
OnlyCompleteWith(q, t) ==
  /\ LedgerCalls(q) = {}
  /\ q.pc \in {"w_final", "done"}
  /\ PlatformCalls(q) = {Len(q.calls)}
  /\ q.calls[Len(q.calls)] = Call("complete", q.paymentId.val, TxidBody(t))

(* C8 as stated: a completion request with a paymentId and a non-empty     *)
(* explicit txid makes exactly one platform call, 'complete' with body     *)
(* {txid: <the supplied txid>}, no fetch and no ledger call.  Fails: the   *)
(* txid is trimmed, and one that is blank counts as not supplied.          *)
C8_SuppliedTxidSentAsGiven ==
  \A r \in Slots :
    LET q == req[r]
    IN  (q.action \in CompleteActions /\ Truthy(q.paymentId) /\ Truthy(q.txid))
          => OnlyCompleteWith(q, q.txid.val)

(* C8 amended: a completion request with a paymentId and an explicit txid  *)
(* that is non-empty after trimming makes exactly one platform call,       *)
(* 'complete' with body {txid: <the trimmed txid>}, no fetch and no        *)
(* ledger call.                                                            *)
C8_TrimmedTxidSent ==
  \A r \in Slots :
    LET q == req[r]
    IN  (q.action \in CompleteActions /\ Truthy(q.paymentId) /\ q.txid.str
           /\ Trim(q.txid.val) # "")
          => OnlyCompleteWith(q, Trim(q.txid.val))

\* C8 witness: an a2u_complete with a padded txid got its response
C8_Witness ==
  \E r \in Slots :
    /\ Done(r)
    /\ req[r].action = "a2u_complete"
    /\ req[r].paymentId = JStr("P1")
    /\ req[r].txid = JStr(" H1 ")
    /\ req[r].resp.success

\* the request did something that belongs to an action: read its payload or
\* its paymentId, or called the platform or the ledger
ActionLogicRan(q) ==
  \/ q.payment # NoPayload
  \/ q.paymentId # Undef
  \/ PlatformCalls(q) # {}
  \/ LedgerCalls(q) # {}
  \/ q.pc = "dispatch"

(* C9: a request of any action other than auth_verify whose bearer token   *)
(* is absent or rejected ends with HTTP 401 and nothing action-specific    *)
(* has run (no payload read, no platform or ledger call); and every such   *)
(* request that runs action logic, or ends otherwise than with 401 or the  *)
(* 500 of a failed session lookup, has an authenticated caller.            *)
C9_UnauthenticatedIs401 ==
  \A r \in Slots :
    LET q == req[r]
    IN  (q.action \notin {"", "auth_verify"}) =>
          /\ q.auth \in {"nohdr", "rejected"} =>
               /\ Done(r)
               /\ q.resp.status = 401
               /\ ~ActionLogicRan(q)
          /\ (ActionLogicRan(q) \/ (Done(r) /\ q.resp.status # 401 /\ q.auth # "throws"))
               => q.auth = "user"

\* C9 witness: an a2u_create whose token the identity provider rejected
C9_Witness ==
  \E r \in Slots :
    /\ Done(r)
    /\ req[r].action = "a2u_create"
    /\ req[r].auth = "rejected"
    /\ req[r].resp.status = 401

\* the payloads C10 names, read off the payload itself
AmountMissingOrNotPositive(a) ==
  \/ a.t \in {"undef", "text", "inf"}
  \/ a.t \in {"num", "numtext"} /\ a.n <= 0
NamedInvalid(p) ==
  \/ AmountMissingOrNotPositive(p.amount)
  \/ ~p.uid.str
  \/ ~p.memo.str
  \/ Trim(p.memo.val) = ""
  \/ p.metadata # "object"

(* C10: an a2u_create request that reaches its branch (authenticated, app  *)
(* API key configured) with a payload whose amount is missing, non-finite  *)
(* or not > 0, or whose uid is missing, or whose memo is empty after       *)
(* trimming, or whose metadata is missing or not a non-array object, ends  *)
(* with HTTP 400 and has made no payment-platform call.                    *)
C10_InvalidPayloadIs400 ==
  \A r \in Slots :
    LET q == req[r]
    IN  (Done(r) /\ q.action = "a2u_create" /\ q.auth = "user" /\ env.apiKey
           /\ NamedInvalid(q.payment))
          => /\ q.resp.status = 400
             /\ ~q.resp.success
             /\ PlatformCalls(q) = {}
             /\ LedgerCalls(q) = {}

\* C10 witness: a payload that is valid but for its metadata being an array
C10_Witness ==
  \E r \in Slots :
    /\ Done(r)
    /\ req[r].action = "a2u_create"
    /\ req[r].payment = [ValidPayload("u1") EXCEPT !.metadata = "array"]
    /\ req[r].resp.error = "Missing payment.metadata object"

\* the latest upstream answer of q was a non-2xx HTTP answer
AnsweredNon2xx(q) == q.answer.ep # "" /\ q.answer.status \in Non2xx
\* the latest upstream call of q got no answer: fetch rejected
Unanswered(q) == q.answer.ep # "" /\ q.answer.status = 0

(* C11: an auth_verify request never goes through the session lookup, the  *)
(* API-key check or any payment or ledger call, whatever its outcome; it   *)
(* answers success with {uid, username} only when the identity endpoint    *)
(* answered 2xx with a non-empty string uid, and it answers HTTP 400 when  *)
(* the access token is missing, when the identity endpoint answers         *)
(* non-2xx, and when the 2xx answer carries no uid.                        *)
C11_AuthVerifyStandsAlone ==
  \A r \in Slots :
    LET q == req[r]
    IN  q.action = "auth_verify" =>
          /\ q.auth = "none"
          /\ \A i \in 1..Len(q.calls) : q.calls[i].ep = "me"
          /\ ~q.readSeed /\ q.payment = NoPayload /\ q.paymentId = Undef
          /\ q.resp.error # "PI_API_KEY is not configured"
          /\ Done(r) =>
               /\ q.resp.success =>
                    /\ q.answer.status = 200
                    /\ Truthy(q.answer.body.uid)
                    /\ q.resp.uid = q.answer.body.uid.val
                    /\ q.resp.username = IF q.answer.body.username.str
                                            THEN q.answer.body.username.val ELSE ""
                    /\ q.resp.status = 200
               /\ (q.calls = <<>> \/ AnsweredNon2xx(q)
                     \/ (q.answer.status = 200 /\ ~Truthy(q.answer.body.uid)))
                    => (q.resp.status = 400 /\ ~q.resp.success /\ q.resp.error # "")

\* C11 witness: an identity verified while the app API key is not configured
C11_Witness ==
  \E r \in Slots :
    /\ Done(r)
    /\ req[r].action = "auth_verify"
    /\ ~env.apiKey
    /\ req[r].resp.success
    /\ req[r].resp.uid = "u1"

\* the a2u_create requests whose list query was answered 2xx and which went
\* on to the create call: the list they saw was empty
SawNoneIncomplete(q) ==
  /\ q.action = "a2u_create"
  /\ q.pc = "w_create"
  /\ q.answer = Answer("incomplete_server_payments", 200, EmptyBody)

(* C12: a2u_create has no local mutual exclusion.  Under SpecCreate, a     *)
(* request whose list query is answered 2xx while the platform holds no    *)
(* incomplete A2U payment goes on to the create-payment call and does not  *)
(* answer Conflict, whatever the other request in flight is doing; so two  *)
(* requests for different users can both have seen the empty list and      *)
(* both have the create call in flight (the witness).                      *)
C12_NoLocalExclusion ==
  [][ \A r \in Slots :
        ( /\ req[r].pc = "w_list"
          /\ req'[r].pc # "w_list"
          /\ req'[r].answer.status = 200
          /\ IncompleteServerPayments = <<>> )
        => /\ SawNoneIncomplete(req'[r])
           /\ req'[r].calls[Len(req'[r].calls)].ep = "create"
           /\ req'[r].resp.status # 409 ]_vars

\* C12 witness: two valid a2u_create requests for different users, started
\* with no incomplete payment on the platform, have both seen the empty list
\* and both have their create-payment call in flight
C12_Witness ==
  /\ SawNoneIncomplete(req[1])
  /\ SawNoneIncomplete(req[2])
  /\ req[1].uid # req[2].uid
  /\ PayloadError(req[1].payment) = "" /\ PayloadError(req[2].payment) = ""
  /\ IncompleteServerPayments = <<>>

\* the request has had a ledger transaction accepted: its submitTransaction
\* call was answered, with or without a hash
HasSubmitted(q) ==
  \E i \in CallsTo(q, {"submitTransaction"}) :
    \/ i < Len(q.calls)
    \/ (q.answer.ep = "submitTransaction" /\ q.answer.status = 200)

(* C13: under SpecComplete, no two a2u_complete requests in flight at the  *)
(* same time (neither with an explicit txid) have both had a ledger        *)
(* transaction accepted for the same payment.  Fails: both fetch the       *)
(* record before either completes, both find no txid, both submit.         *)
C13_OneSubmissionWhenConcurrent ==
  \A r1 \in Slots : \A r2 \in Slots :
    ( /\ r1 # r2
      /\ req[r1].action = "a2u_complete" /\ req[r2].action = "a2u_complete"
      /\ ExplicitTxid(req[r1].txid) = "" /\ ExplicitTxid(req[r2].txid) = ""
      /\ HasSubmitted(req[r1]) /\ HasSubmitted(req[r2]) )
    => req[r1].paymentId # req[r2].paymentId

(* C14: an a2u_config_status request of an authenticated caller answers    *)
(* success with four flags, each telling whether the secret is configured  *)
(* (app API key, validation key, wallet secret, wallet public address),    *)
(* whatever secrets are present, and makes no platform or ledger call.     *)
(* Fails: without the app API key the request is answered 500 before the   *)
(* action is looked at, so hasApiKey: false is never reported.             *)
C14_ConfigStatusReportsPresence ==
  \A r \in Slots :
    LET q == req[r]
    IN  (Done(r) /\ q.action = "a2u_config_status" /\ q.auth = "user") =>
          /\ q.resp.success
          /\ q.resp.status = 200
          /\ Len(q.resp.flags) = 4
          /\ q.resp.flags[1] = env.apiKey
          /\ q.resp.flags[2] \in BOOLEAN
          /\ q.resp.flags[3] = (env.seed # "")
          /\ q.resp.flags[4] = (env.publicAddress # "")
          /\ PlatformCalls(q) = {}
          /\ LedgerCalls(q) = {}

(* C15: whenever a payment-platform call of a request (ads status, list    *)
(* of incomplete payments, create, get, approve, complete, cancel) is      *)
(* answered non-2xx, the request ends with HTTP 400 carrying the upstream  *)
(* status, the parsed upstream body, and as error the message extracted    *)
(* from that body (a fallback only when the body carries none).  Fails:    *)
(* a2u_create goes on to the create call after a non-2xx list answer, and  *)
(* ad_verify and a2u_incomplete answer a fixed message whatever the body   *)
(* carries.                                                                *)
C15_UpstreamErrorSurfaced ==
  \A r \in Slots :
    LET q == req[r]
        extracted == getPiErrorMessage(q.answer.body, "")
    IN  (q.answer.ep \in PlatformEndpoints /\ AnsweredNon2xx(q)) =>
          /\ Done(r)
          /\ q.resp.status = 400
          /\ ~q.resp.success
          /\ q.resp.ustatus = q.answer.status
          /\ q.resp.data = q.answer.body
          /\ IF extracted # "" THEN q.resp.error = extracted ELSE q.resp.error # ""

\* the latest upstream call of q was answered non-2xx or failed
UpstreamFailed(q) == AnsweredNon2xx(q) \/ Unanswered(q)

(* C16: within one request no upstream endpoint is called more than once,  *)
(* and once an upstream call (platform or ledger) is answered non-2xx or   *)
(* fails, the request has ended with an error response and that call is    *)
(* its last.  Fails with C3: after a non-2xx answer to the list query      *)
(* a2u_create issues the create-payment call.                              *)
C16_ErrorsTerminalNoRetry ==
  \A r \in Slots :
    LET q == req[r]
    IN  /\ \A i \in 1..Len(q.calls) : \A j \in 1..Len(q.calls) :
             i # j => q.calls[i].ep # q.calls[j].ep
        /\ UpstreamFailed(q) =>
             /\ Done(r)
             /\ ~q.resp.success
             /\ q.resp.error # ""
             /\ q.resp.status \in {400, 500}
             /\ q.calls[Len(q.calls)].ep = q.answer.ep

\* the values the extractor looks at, in the order the claim gives; the two
\* of the data key count only when data is a non-array object
Candidates(payload) ==
  << payload.error, payload.message,
     IF payload.data.obj THEN payload.data.error ELSE Undef,
     IF payload.data.obj THEN payload.data.message ELSE Undef >>
\* a value is usable when it is a string that is not blank
Usable(v) == v.str /\ Trim(v.val) # ""
FirstUsable(payload, fallback) ==
  LET c == Candidates(payload)
      usable == {i \in 1..4 : Usable(c[i])}
  IN  IF usable = {} THEN fallback
      ELSE Trim(c[CHOOSE i \in usable : \A j \in usable : i <= j].val)

(* C17: for every response text and fallback, the message extracted from   *)
(* the parsed body is the first usable value (trimmed) among top-level     *)
(* error, top-level message, data.error, data.message, and the fallback    *)
(* when there is none; a text that is not JSON parses to {raw: <text>}     *)
(* and an empty text to {}, and for both the message is the fallback.      *)
C17_FirstUsableOrFallback ==
  /\ norm.pc \in {"parsed", "extracted"} =>
       /\ norm.raw.kind = "text" => norm.payload = [EmptyBody EXCEPT !.raw = JStr(norm.raw.text)]
       /\ norm.raw.kind = "empty" => norm.payload = EmptyBody
       /\ norm.raw.kind = "json" => norm.payload = norm.raw.value
  /\ norm.pc = "extracted" =>
       /\ norm.message = FirstUsable(norm.payload, norm.fallback)
       /\ norm.raw.kind \in {"text", "empty"} => norm.message = norm.fallback

\* C17 witness: a body whose error is blank and whose message is absent
\* gave the error of its data object, not the message next to it
C17_Witness ==
  /\ norm.pc = "extracted"
  /\ norm.payload.error = JStr("  ")
  /\ norm.payload.message = Undef
  /\ norm.payload.data = [obj |-> TRUE, error |-> JStr("nested error"),
                          message |-> JStr("nested message")]
  /\ norm.message = "nested error"

\* the ad_verify requests of an authenticated caller whose status lookup was
\* answered 2xx
AdLookupAnswered(q) ==
  /\ q.action = "ad_verify"
  /\ q.auth = "user"
  /\ q.answer.ep = "ads_status"
  /\ q.answer.status = 200

(* C18: an ad_verify request of an authenticated caller whose upstream     *)
(* lookup is answered 2xx ends with a success, never an error, and its     *)
(* rewarded flag is true exactly when the answer's mediator_ack_status is  *)
(* the string "granted" (another string, a value that is not a string or   *)
(* an absent key give false).                                              *)
C18_RewardedIffGranted ==
  \A r \in Slots :
    LET q == req[r]
    IN  AdLookupAnswered(q) =>
          /\ Done(r)
          /\ q.resp.success
          /\ q.resp.status = 200
          /\ q.resp.error = ""
          /\ q.resp.rewarded <=> (q.answer.body.mediator_ack_status = JStr("granted"))

\* C18 witness: a status that differs from "granted" only by its case was
\* answered as a success that is not rewarded
C18_Witness ==
  \E r \in Slots :
    /\ Done(r)
    /\ AdLookupAnswered(req[r])
    /\ req[r].answer.body.mediator_ack_status = JStr("Granted")
    /\ req[r].resp.success
    /\ ~req[r].resp.rewarded

\* the enumerated action set
KnownActions ==
  {"auth_verify", "ad_verify", "a2u_config_status", "a2u_create", "a2u_incomplete"}
    \cup PaymentActions

(* C19: a request of an authenticated caller (on a deployment with its app *)
(* API key) whose action is a string outside the enumerated set ends with  *)
(* HTTP 400 and has made no payment-platform or ledger call, with or       *)
(* without a paymentId.                                                    *)
C19_UnknownActionIs400 ==
  \A r \in Slots :
    LET q == req[r]
    IN  (q.action \notin KnownActions \cup {""} /\ q.auth = "user" /\ env.apiKey) =>
          /\ PlatformCalls(q) = {}
          /\ LedgerCalls(q) = {}
          /\ Done(r) =>
               /\ q.resp.status = 400
               /\ ~q.resp.success
               /\ q.resp.error =
                    IF Truthy(q.paymentId) THEN "Invalid action" ELSE "Missing paymentId"

\* C19 witness: an unknown action that came with a paymentId was rejected
C19_Witness ==
  \E r \in Slots :
    /\ Done(r)
    /\ req[r].action = "Complete"
    /\ req[r].auth = "user"
    /\ req[r].paymentId = JStr("P1")
    /\ req[r].resp.error = "Invalid action"

\* the two shapes of a response
SuccessShape(resp) == resp.status = 200 /\ resp.success /\ resp.error = ""
ErrorShape(resp) ==
  resp.status \in {400, 401, 409, 500} /\ ~resp.success /\ resp.error # ""

(* C20: a request that is not a preflight has no response before it ends   *)
(* and can always take a step until it does; its response is either HTTP   *)
(* 200 with success: true and no error key, or a non-2xx status with an    *)
(* error string and no success key; and a request in which an exception    *)
(* was raised (settlement failures included) has ended with HTTP 500 and   *)
(* a body that carries the exception's message and nothing else.           *)
C20_TwoShapes ==
  \A r \in Slots :
    LET q == req[r]
    IN  /\ q.pc \notin {"idle", "done"} => (q.resp = NoResp /\ ENABLED Next)
        /\ (Done(r) /\ q.method # "OPTIONS") =>
             (SuccessShape(q.resp) \/ ErrorShape(q.resp))
        /\ q.thrown # "" => (Done(r) /\ q.resp = ErrorResponse(q.thrown, 500))

\* C20 witness: a settlement that failed on the payment's source address
\* ended with 500 and the exception's message
C20_Witness ==
  \E r \in Slots :
    /\ Done(r)
    /\ req[r].action = "a2u_complete"
    /\ req[r].thrown = "Payment source address does not match the configured wallet seed"
    /\ req[r].resp.status = 500
    /\ req[r].resp.error = req[r].thrown

\* the six preconditions of the settlement submitter in the claimed order,
\* each with whether the fetched record of q violates it and its error
Preconditions(q) ==
  << [violated |-> q.fetched.identifier = "",
      error |-> "Missing payment identifier for blockchain submission"],
     [violated |-> q.fetched.to_address = "",
      error |-> "Missing payment recipient address"],
     [violated |-> q.fetched.from_address = "",
      error |-> "Missing payment sender address"],
     [violated |-> AmountMissingOrNotPositive(q.fetched.amount),
      error |-> "Invalid payment amount"],
     [violated |-> ExpectedMismatch,
      error |-> "PI_WALLET_PRIVATE_SEED does not match PI_WALLET_PUBLIC_ADDRESS"],
     [violated |-> SourceMismatch(q),
      error |-> "Payment source address does not match the configured wallet seed"] >>
Violated(q) == {i \in 1..6 : Preconditions(q)[i].violated}
Earliest(q) == CHOOSE i \in Violated(q) : \A j \in Violated(q) : i <= j

(* C21: when the settlement submitter is called (with a wallet secret an   *)
(* address derives from) on a record that violates some of its             *)
(* preconditions, the request has ended with the error of the earliest     *)
(* one in the order identifier, destination, source, amount, derived =     *)
(* expected address, source = derived address, and has made no ledger      *)
(* call; a request that has made a ledger call violates none.              *)
C21_EarliestViolationReported ==
  \A r \in Slots :
    LET q == req[r]
    IN  /\ (SettlementAttempt(q) /\ Violated(q) # {}) =>
             /\ Done(r)
             /\ q.thrown = Preconditions(q)[Earliest(q)].error
             /\ q.resp = ErrorResponse(q.thrown, 500)
             /\ LedgerCalls(q) = {}
        /\ LedgerCalls(q) # {} => (SettlementAttempt(q) /\ Violated(q) = {})

\* C21 witness: the derived address differs from the configured one and from
\* the payment's source, and the earlier of the two errors was reported
C21_Witness ==
  \E r \in Slots :
    /\ Done(r)
    /\ SettlementAttempt(req[r])
    /\ Violated(req[r]) = {5, 6}
    /\ req[r].resp.error = "PI_WALLET_PRIVATE_SEED does not match PI_WALLET_PUBLIC_ADDRESS"

\* the a2u_complete requests that gave no usable txid and whose fetched
\* record is an app_to_user payment without a transaction
SettlesPayout(q) ==
  /\ q.action = "a2u_complete"
  /\ Dispatched(q)
  /\ (~q.txid.str \/ Trim(q.txid.val) = "")
  /\ Fetched(q)
  /\ q.fetched.direction = "app_to_user"
  /\ q.fetched.txid = ""

\* the calls of a settlement, after the session lookup, in the claimed order
SettlementOrder ==
  <<"getUser", "get", "loadAccount", "fetchBaseFee", "submitTransaction", "complete">>
\* the endpoints q has called so far, in order
Endpoints(q) == [i \in 1..Len(q.calls) |-> q.calls[i].ep]
\* the answer to the submission of q is the latest it got
SubmissionAnswered(q) == q.answer.ep = "submitTransaction"
\* the hash of that answer or, failing that, its id; Undef when neither
HashOrId(q) ==
  IF Truthy(q.answer.body.hash) THEN q.answer.body.hash ELSE q.answer.body.id

(* C22: the upstream calls of an a2u_complete request that requires        *)
(* settlement are, in order, a prefix of: fetch payment, load account,     *)
(* fetch base fee, submit transaction, platform 'complete'.  When the      *)
(* ledger answers the submission with a hash or, failing that, an id, the  *)
(* request issues the 'complete' call with body {txid: <that value>}; when *)
(* the ledger rejects the transaction or answers with neither, the         *)
(* request has failed and has issued no 'complete' call.                   *)
C22_SettlementOrder ==
  \A r \in Slots :
    LET q == req[r]
    IN  SettlesPayout(q) =>
          /\ Endpoints(q) = SubSeq(SettlementOrder, 1, Len(q.calls))
          /\ (SubmissionAnswered(q) /\ q.answer.status = 200 /\ Truthy(HashOrId(q))) =>
               /\ q.pc = "w_final"
               /\ q.calls[Len(q.calls)] =
                    Call("complete", q.paymentId.val, TxidBody(HashOrId(q).val))
          /\ (SubmissionAnswered(q) /\ (q.answer.status # 200 \/ ~Truthy(HashOrId(q)))) =>
               /\ Done(r)
               /\ ErrorShape(q.resp)
               /\ CompleteCalls(q) = {}
          /\ CompleteCalls(q) # {} => CallsTo(q, {"submitTransaction"}) # {}

\* C22 witness: a settlement ran through its five upstream calls and ended
\* with the payment completed under the transaction the ledger returned
C22_Witness ==
  \E r \in Slots :
    /\ Done(r)
    /\ SettlesPayout(req[r])
    /\ Endpoints(req[r]) = SettlementOrder
    /\ req[r].resp.success
    /\ payments[req[r].paymentId.val].txid = req[r].calls[6].body[1]

SeedMissing == "PI_WALLET_PRIVATE_SEED is not configured"

(* C23: without the wallet signing secret, an a2u_complete request that    *)
(* requires settlement (no explicit txid, fetched payment app_to_user      *)
(* without a transaction) has ended with HTTP 500, the secret's            *)
(* configuration error, and has made no ledger call and no platform        *)
(* 'complete' call; and only such a request is ever answered that error    *)
(* or reads the secret at all: a request with an explicit txid, on a       *)
(* payment with a transaction or of another direction, or of another       *)
(* action, runs as it does with the secret present.                        *)
C23_SecretNeededOnlyToSettle ==
  \A r \in Slots :
    LET q == req[r]
    IN  /\ (SettlesPayout(q) /\ env.seed = "") =>
             /\ Done(r)
             /\ q.resp = ErrorResponse(SeedMissing, 500)
             /\ LedgerCalls(q) = {}
             /\ CompleteCalls(q) = {}
        /\ (q.readSeed \/ q.resp.error = SeedMissing) => SettlesPayout(q)
        /\ q.resp.error = SeedMissing => env.seed = ""

\* C23 witness: on a deployment without the secret, a completion that had
\* to settle was refused
C23_Witness ==
  \E r \in Slots :
    /\ Done(r)
    /\ env.seed = ""
    /\ SettlesPayout(req[r])
    /\ req[r].resp.error = SeedMissing

\* on the same deployment, a completion of the open payout with an explicit
\* txid succeeded
C23_WitnessUnaffected ==
  \E r \in Slots :
    /\ Done(r)
    /\ env.seed = ""
    /\ req[r].action = "a2u_complete"
    /\ req[r].txid = JStr("H1")
    /\ req[r].paymentId = JStr("P1")
    /\ payments["P1"].direction = "app_to_user"
    /\ req[r].resp.success

\* the complete and payment_complete requests that came with a paymentId and
\* no usable txid
PlainCompletion(q) ==
  /\ q.action \in {"complete", "payment_complete"}
  /\ Truthy(q.paymentId)
  /\ (~q.txid.str \/ Trim(q.txid.val) = "")

(* C24: a complete or payment_complete request with a paymentId and no     *)
(* explicit txid makes exactly one platform call, the 'complete' call of   *)
(* that payment with an empty body, and neither fetches the payment nor    *)
(* calls the ledger, whatever the direction of the payment.                *)
C24_PlainCompletionEmptyBody ==
  \A r \in Slots :
    LET q == req[r]
    IN  PlainCompletion(q) =>
          /\ q.pc \in {"w_final", "done"}
          /\ LedgerCalls(q) = {}
          /\ ~Fetched(q)
          /\ PlatformCalls(q) = {Len(q.calls)}
          /\ q.calls[Len(q.calls)] = Call("complete", q.paymentId.val, NoBody)

\* C24 witness: a payment_complete without txid on the open app_to_user
\* payout was passed on with an empty body and accepted
C24_Witness ==
  \E r \in Slots :
    /\ Done(r)
    /\ req[r].action = "payment_complete"
    /\ req[r].paymentId = JStr("P1")
    /\ req[r].txid = Undef
    /\ payments["P1"].direction = "app_to_user"
    /\ req[r].resp.success

\* approve, cancel and get with their aliases, and the call each stands for
PassThrough ==
  { [names |-> {"approve", "payment_approve", "a2u_approve"}, ep |-> "approve",
     method |-> "POST"],
    [names |-> {"cancel", "payment_cancel", "a2u_cancel"}, ep |-> "cancel",
     method |-> "POST"],
    [names |-> {"get", "payment_get", "a2u_get"}, ep |-> "get", method |-> "GET"] }

(* C25: approve, cancel and get behave the same under their payment_ and   *)
(* a2u_ aliases.  With a paymentId the request makes exactly one platform  *)
(* call, to that payment's approve (POST), cancel (POST) or read (GET)     *)
(* endpoint, without body, and no ledger call; without a paymentId it      *)
(* makes no platform call and, once it has passed the session and API-key  *)
(* checks, ends with HTTP 400.                                             *)
C25_AliasesPassThrough ==
  \A r \in Slots : \A k \in PassThrough :
    LET q == req[r]
    IN  q.action \in k.names =>
          /\ LedgerCalls(q) = {}
          /\ Truthy(q.paymentId) =>
               /\ q.pc \in {"w_final", "done"}
               /\ PlatformCalls(q) = {Len(q.calls)}
               /\ q.calls[Len(q.calls)] =
                    [ep |-> k.ep, pid |-> q.paymentId.val, body |-> <<>>,
                     method |-> k.method]
          /\ ~Truthy(q.paymentId) =>
               /\ PlatformCalls(q) = {}
               /\ (Done(r) /\ q.auth = "user" /\ env.apiKey) =>
                    q.resp = ErrorResponse("Missing paymentId", 400)

\* C25 witness: an a2u_get of the open payout was answered through one GET
C25_Witness ==
  \E r \in Slots :
    /\ Done(r)
    /\ req[r].action = "a2u_get"
    /\ req[r].paymentId = JStr("P1")
    /\ req[r].calls[Len(req[r].calls)].method = "GET"
    /\ req[r].resp.success

\* the a2u_create requests answered with reusedIncomplete: true
AnsweredReuse(q) ==
  q.action = "a2u_create" /\ q.pc = "done" /\ q.resp.success /\ q.resp.reused

(* C26: under SpecListed, an a2u_create answered with reusedIncomplete:    *)
(* true carries an incomplete payment of the requested user: the           *)
(* user_uid of the payment in the response, and of the platform's record   *)
(* of it, equals the payload's uid.  Fails: a first listed payment that    *)
(* carries no user_uid is returned to whoever asks.                        *)
C26_ReusedPaymentIsCallers ==
  \A r \in Slots :
    LET q == req[r]
    IN  AnsweredReuse(q) =>
          /\ q.resp.pid \in PaymentIds
          /\ IsIncompleteA2U(q.resp.pid)
          /\ q.resp.uid = q.uid
          /\ payments[q.resp.pid].uid = q.uid

\* handlePiAuth has ended and had a non-empty authorization code
EndedWithCode == page.pc = "done" /\ page.expectedCode # ""

(* C27: under SpecPiAuth, a sign-in flow that had a non-empty              *)
(* authorization code ends signed in and navigated to an application page  *)
(* only if the code was checked and matched; a code found not to match     *)
(* ends signed out with no navigation; and every ended flow has the busy   *)
(* flag false.  Fails: a flow that needs profile setup, or whose getUser   *)
(* returns no user, navigates signed in before the code is checked.        *)
C27_CodeGatesSignIn ==
  /\ EndedWithCode =>
        /\ (page.session /\ page.navigated # "") => page.isMatch = "match"
        /\ page.isMatch = "mismatch" => (~page.session /\ page.navigated = "")
  /\ page.pc = "done" => ~page.busyAuth

=============================================================================
